---- MODULE Spec2Model ----
(***************************************************************************)
(* State-machine model of the gamdl Chrome extension: the popup script     *)
(* (src/unnamed/part_003) and the background service worker                *)
(* (src/background.js).  The native messaging host is the environment: it  *)
(* answers a posted message or lets the port disconnect.                   *)
(***************************************************************************)
EXTENDS Integers, Sequences, FiniteSets, Bags, TLC

(* ------------------------------ bounds -------------------------------- *)
\* largest number of catalog items a fetch_items response lists
MaxItems == 2
\* chrome.runtime.sendMessage calls that may be outstanding at once
MaxInflight == 2
\* download button clicks in one popup session
MaxDownloads == 1

(* --------------------------- JavaScript values ------------------------ *)
Undefined == "<undefined>"
Null == "<null>"
\* truthiness of a string-or-undefined value (x || y, if (x))
TruthyStr(s) == s \notin {Undefined, Null, ""}
\* String.prototype.includes
Includes(s, sub) ==
  \E i \in 1..(Len(s) - Len(sub) + 1) : SubSeq(s, i, i + Len(sub) - 1) = sub
\* elements of an array
Range(seq) == {seq[i] : i \in 1..Len(seq)}

(* ------------------------------ variables ----------------------------- *)
VARIABLES
  phase,                \* where the DOMContentLoaded handler stands
  tab,                  \* the active tab the popup was opened on
  currentUrl,
  currentType,
  items,
  selectedIds,          \* a JS Set: insertion-ordered, no duplicates
  alacChecked,          \* alacToggle.checked
  dom,                  \* the popup's elements the script writes
  statusCheckInterval,  \* the timer handle variable (0 is null)
  timers,               \* interval timers set and not cleared
  nTimers,              \* timers created so far (setInterval's handles)
  nClicks,              \* download clicks so far
  reqs,                 \* bag of outstanding chrome.runtime.sendMessage requests
  hostDone              \* the host has no job left and stays that way

vars == <<phase, tab, currentUrl, currentType, items, selectedIds, alacChecked,
          dom, statusCheckInterval, timers, nTimers, nClicks, reqs, hostDone>>

popupVars == <<phase, tab, currentUrl, currentType, items, selectedIds,
               alacChecked, dom, statusCheckInterval, timers, nTimers, nClicks>>

(* ----------------------- background.js: requests ---------------------- *)
NATIVE_HOST_NAME == "com.gamdl.host"

Pending == [pending |-> TRUE]
NoMsg == [action |-> "none"]

\* a request as chrome.runtime.sendMessage leaves it: not yet seen by the
\* background listener
NewReq(who, msg, at) ==
  [who |-> who, msg |-> msg, at |-> at, stage |-> "sent", port |-> "none",
   posted |-> NoMsg, promise |-> Pending, nresp |-> 0]

NoSnapshot == [alac |-> FALSE, sel |-> <<>>, n |-> 0]

\* what chrome.runtime.lastError.message holds when a native port disconnects
LastErrorMessages ==
  {"Specified native messaging host not found.", "Native host has exited."}
\* lastError is unset when the port closes without an error
LastErrors == LastErrorMessages \cup {Undefined}
\* message of an exception thrown by connectNative or postMessage
ThrownMessages == {"Could not establish connection."}

\* resolve(v) of the handler's promise, and the listener's .then(sendResponse):
\* only the first resolve settles the promise
Resolve(r, v) ==
  IF r.promise = Pending THEN [r EXCEPT !.promise = v, !.nresp = @ + 1] ELSE r

\* handleDownload(url, selectedIds = null, codec = 'aac-legacy'): the message
\* it posts to the native host
DownloadMessageNoDefault(request) ==
  LET codec == IF "codec" \in DOMAIN request THEN request.codec ELSE Undefined
      base == [action |-> "download", url |-> request.url, codec |-> codec]
  IN IF "selectedIds" \in DOMAIN request /\ Len(request.selectedIds) > 0
       THEN base @@ [selectedIds |-> request.selectedIds]
       ELSE base
DownloadMessageAlways(request) ==
  LET codec == IF "codec" \in DOMAIN request /\ request.codec # Undefined
                 THEN request.codec ELSE "aac-legacy"
      base == [action |-> "download", url |-> request.url, codec |-> codec]
  IN IF "selectedIds" \in DOMAIN request
       THEN base @@ [selectedIds |-> request.selectedIds]
       ELSE base
DownloadMessage(request) ==
  LET codec == IF "codec" \in DOMAIN request /\ request.codec # Undefined
                 THEN request.codec ELSE "aac-legacy"
      base == [action |-> "download", url |-> request.url, codec |-> codec]
  IN IF "selectedIds" \in DOMAIN request /\ Len(request.selectedIds) > 0
       THEN base @@ [selectedIds |-> request.selectedIds]
       ELSE base

\* the message each handler posts
NativeMessage(request) ==
  CASE request.action = "download" -> DownloadMessage(request)
    [] request.action = "fetch_items" ->
         [action |-> "fetch_items", url |-> request.url]
    [] OTHER -> [action |-> "check_status"]

\* port.onMessage listener of each handler: the value it resolves with
DownloadResultRaw(response) ==
  IF response.success
    THEN [success |-> TRUE, message |-> response.message]
    ELSE [success |-> FALSE, error |-> response.error]
DownloadResult(response) ==
  IF response.success
    THEN [success |-> TRUE, message |-> response.message]
    ELSE [success |-> FALSE,
          error |-> IF TruthyStr(response.error) THEN response.error
                    ELSE "Unknown error"]
OnMessageResult(action, response) ==
  IF action = "download" THEN DownloadResult(response) ELSE response

\* port.onDisconnect listener with lastError set: the value it resolves with
NotInstalled == "Native host not installed. Run install.sh first."
OnDisconnectResult(action, errorMessage) ==
  IF action \in {"download", "fetch_items"} /\ Includes(errorMessage, "not found")
    THEN [success |-> FALSE, error |-> NotInstalled]
    ELSE [success |-> FALSE, error |-> errorMessage]

(* ----------------------- the native host's answers -------------------- *)
HostDownloadResponses ==
  {[success |-> TRUE, message |-> "Download started", error |-> Undefined],
   [success |-> FALSE, message |-> Undefined, error |-> "gamdl not found in PATH"],
   [success |-> FALSE, message |-> Undefined, error |-> ""],
   [success |-> FALSE, message |-> Undefined, error |-> Undefined]}

\* check_status answers: one track in progress, or none yet; errors so far
Track1 ==
  [name |-> "Song A", current |-> 1, total |-> 2, completed |-> 0,
   progress |-> "50%"]
ErrorLists == {<<>>, <<"Song A: no lyrics", "Song B: not streamable">>}
IdleStatusResponses ==
  {[success |-> TRUE, isDownloading |-> FALSE, tracks |-> <<>>, errors |-> e,
    processCount |-> 0] : e \in ErrorLists}
ActiveStatusResponses ==
  {[success |-> TRUE, isDownloading |-> TRUE, tracks |-> t, errors |-> e,
    processCount |-> 1] : t \in {<<>>, <<Track1>>}, e \in ErrorLists}
StatusResponses ==
  IdleStatusResponses \cup ActiveStatusResponses
    \cup {[success |-> FALSE, error |-> "status unavailable"]}

\* fetch_items answers: items 1..n in catalog order, each downloaded or not
ItemLists ==
  UNION {[1..n -> BOOLEAN] : n \in 0..MaxItems}
ItemsOf(flags) ==
  [i \in DOMAIN flags |-> [id |-> i, downloaded |-> flags[i]]]
FetchResponses ==
  {[success |-> TRUE, items |-> ItemsOf(f)] : f \in ItemLists}
    \cup {[success |-> FALSE, error |-> "Unsupported URL type"]}

(* ----------------- background.js: listener and port events ------------ *)
KnownActions == {"download", "fetch_items", "check_status"}

Requests == BagToSet(reqs)
Put(rq, r) == rq (+) SetToBag({r})
Take(rq, r) == rq (-) SetToBag({r})

\* chrome.runtime.onMessage listener: runs the request's handler up to
\* port.postMessage; connectNative or postMessage may throw
BgOnMessage(r, outcomes) ==
  /\ r.stage = "sent"
  /\ r.msg.action \in KnownActions
  /\ \E outcome \in outcomes, m \in ThrownMessages :
       LET h == [r EXCEPT !.stage = "handled"]
           failed == Resolve(h, [success |-> FALSE, error |-> m])
       IN reqs' = Put(Take(reqs, r),
            CASE outcome = "posted" ->
                   [h EXCEPT !.port = "open", !.posted = NativeMessage(r.msg)]
              [] outcome = "connectThrows" -> failed
              [] OTHER -> [failed EXCEPT !.port = "open"])
  /\ UNCHANGED <<popupVars, hostDone>>

\* port.onMessage: the host's answer arrives; the handler resolves and
\* disconnects the port
PortOnMessage(r, answers) ==
  /\ r.port = "open"
  /\ r.posted # NoMsg
  /\ \E response \in answers[r.msg.action] :
       reqs' = Put(Take(reqs, r),
         [Resolve(r, OnMessageResult(r.msg.action, response))
            EXCEPT !.port = "closed"])
  /\ UNCHANGED <<popupVars, hostDone>>

\* port.onDisconnect: the port closes before any message, with
\* chrome.runtime.lastError set or not
PortOnDisconnect(r, errors) ==
  /\ r.port = "open"
  /\ \E error \in errors :
       reqs' = Put(Take(reqs, r),
         [(IF error # Undefined
             THEN Resolve(r, OnDisconnectResult(r.msg.action, error))
             ELSE r)
            EXCEPT !.port = "closed"])
  /\ UNCHANGED <<popupVars, hostDone>>

\* the host runs out of jobs: from now on every status query is answered
\* success, not downloading
HostFinish ==
  /\ ~hostDone
  /\ hostDone' = TRUE
  /\ UNCHANGED <<popupVars, reqs>>

(* ----------------------- popup: constants and tab --------------------- *)
SELECTABLE_TYPES == {"artist", "album"}

\* the active tab: its URL and what VALID_URL_PATTERN's groups hold for it
NoTab ==
  [url |-> "https://example.com/", match |-> FALSE,
   type |-> Undefined, sub_id |-> Undefined, library_type |-> Undefined]
AlbumTab ==
  [url |-> "https://music.apple.com/us/album/x/1", match |-> TRUE,
   type |-> "album", sub_id |-> Undefined, library_type |-> Undefined]
SongTab ==
  [url |-> "https://music.apple.com/us/album/x/1?i=2", match |-> TRUE,
   type |-> "album", sub_id |-> "2", library_type |-> Undefined]
ArtistTab ==
  [url |-> "https://music.apple.com/us/artist/y/3", match |-> TRUE,
   type |-> "artist", sub_id |-> Undefined, library_type |-> Undefined]
LibraryTab ==
  [url |-> "https://music.apple.com/library/albums/l.abc", match |-> TRUE,
   type |-> Undefined, sub_id |-> Undefined, library_type |-> "albums"]
PlaylistTab ==
  [url |-> "https://music.apple.com/us/playlist/z/pl.u-4", match |-> TRUE,
   type |-> "playlist", sub_id |-> Undefined, library_type |-> Undefined]
Tabs == {NoTab, AlbumTab, SongTab, ArtistTab, PlaylistTab, LibraryTab}

DetectTypeNoSub(groups) ==
  IF TruthyStr(groups.type) THEN groups.type
  ELSE IF TruthyStr(groups.library_type) THEN groups.library_type
  ELSE Null
\* content type from the match groups
DetectType(groups) ==
  IF TruthyStr(groups.sub_id) THEN "song"
  ELSE IF TruthyStr(groups.type) THEN groups.type
  ELSE IF TruthyStr(groups.library_type) THEN groups.library_type
  ELSE Null

(* --------------------------- popup: the page -------------------------- *)
NoProgress == [kind |-> "empty", n |-> 0, tracks |-> <<>>, errors |-> <<>>]
\* the page as popup.html declares it: every section the script reveals
\* starts hidden
InitDom ==
  [notAppleMusicHidden |-> TRUE, loadingHidden |-> TRUE,
   appleMusicDetectedHidden |-> TRUE, itemsSectionHidden |-> TRUE,
   progressSectionHidden |-> TRUE, btnLoading |-> FALSE,
   downloadBtnDisabled |-> FALSE, selectAllBtnDisabled |-> FALSE,
   status |-> [hidden |-> TRUE, type |-> "", text |-> ""],
   progressTracks |-> NoProgress]

showStatus(d, message, type) ==
  [d EXCEPT !.status = [hidden |-> FALSE, type |-> type, text |-> message]]

\* the button leaves (restore) or enters its loading state
restoreButton(d) ==
  [d EXCEPT !.btnLoading = FALSE, !.downloadBtnDisabled = FALSE]
loadingButton(d) ==
  [d EXCEPT !.btnLoading = TRUE, !.downloadBtnDisabled = TRUE]

(* ------------------------ popup: item selection ----------------------- *)
\* the Set selectedIds
has(S, id) == id \in Range(S)
add(S, id) == IF has(S, id) THEN S ELSE Append(S, id)
delete(S, id) == SelectSeq(S, LAMBDA x : x # id)

getSelectableItemsAll(its) == its
getSelectableItems(its) == SelectSeq(its, LAMBDA item : ~item.downloaded)

\* selectableItems.forEach(item => selectedIds.add(item.id))
RECURSIVE addAll(_, _)
addAll(S, its) ==
  IF its = <<>> THEN S ELSE addAll(add(S, Head(its).id), Tail(its))

updateSelectionCount(d, its) ==
  IF Len(getSelectableItems(its)) > 0 THEN d
  ELSE IF Len(its) > 0
    THEN [d EXCEPT !.selectAllBtnDisabled = TRUE, !.downloadBtnDisabled = TRUE]
  ELSE d

\* renderItems rebuilds the list from items and ends in updateSelectionCount
renderItems(d, its) == updateSelectionCount(d, its)

toggleItem(S, id) == IF has(S, id) THEN delete(S, id) ELSE add(S, id)

selectAllClickedListed(S, its) ==
  IF Len(S) = Len(its)
    THEN <<>>
    ELSE addAll(S, getSelectableItems(its))
\* the Select All button's handler
selectAllClicked(S, its) ==
  IF Len(S) = Len(getSelectableItems(its))
    THEN <<>>
    ELSE addAll(S, getSelectableItems(its))

(* ------------------------ popup: requests in flight ------------------- *)
Inflight == BagCardinality(reqs)

\* an awaited sendMessage resumes: with the response, or by throwing when the
\* message never reached the background
SendFailure == "Could not establish connection. Receiving end does not exist."
Resumes(r, who, thrown) ==
  /\ r.who = who
  /\ IF thrown THEN r.stage = "sent" ELSE r.nresp > 0

(* ------------------------ popup: progress display --------------------- *)
\* parseFloat on the strings the model's tracks carry: an optional sign and
\* leading decimal digits (no fraction part occurs); nan when there is none
Digits == "0123456789"
IsDigit(c) == \E d \in 1..10 : SubSeq(Digits, d, d) = c
DigitVal(c) == (CHOOSE d \in 1..10 : SubSeq(Digits, d, d) = c) - 1
RECURSIVE leadingDigits(_, _, _)
leadingDigits(s, i, acc) ==
  IF i <= Len(s) /\ IsDigit(SubSeq(s, i, i))
    THEN leadingDigits(s, i + 1, 10 * acc + DigitVal(SubSeq(s, i, i)))
    ELSE [next |-> i, value |-> acc]
RECURSIVE pow10(_)
pow10(k) == IF k = 0 THEN 1 ELSE 10 * pow10(k - 1)
\* parseFloat of a string: optional sign, digits, optional fraction; what
\* follows the number is ignored and a string without digits gives NaN.
\* The value is the rational num / den
parseFloat(s) ==
  LET neg == Len(s) > 0 /\ SubSeq(s, 1, 1) = "-"
      from == IF neg \/ (Len(s) > 0 /\ SubSeq(s, 1, 1) = "+") THEN 2 ELSE 1
      int == leadingDigits(s, from, 0)
      dot == int.next <= Len(s) /\ SubSeq(s, int.next, int.next) = "."
      frac == IF dot THEN leadingDigits(s, int.next + 1, int.value)
              ELSE [next |-> int.next + 1, value |-> int.value]
      nfrac == frac.next - (int.next + 1)
  IN [nan |-> int.next = from /\ nfrac = 0,
      num |-> IF neg THEN 0 - frac.value ELSE frac.value,
      den |-> pow10(nfrac)]

\* parseFloat(track.progress) || 0
progressPercent(progress) ==
  LET p == parseFloat(progress)
  IN IF p.nan \/ p.num = 0 THEN [num |-> 0, den |-> 1]
     ELSE [num |-> p.num, den |-> p.den]

\* one .progress-track element
renderTrackFraction(track) ==
  [name |-> track.name, current |-> track.current, total |-> track.total,
   completed |-> track.completed,
   width |-> [progressPercent(track.progress) EXCEPT !.num = 100 * @],
   percent |-> track.progress]
renderTrack(track) ==
  [name |-> track.name, current |-> track.current, total |-> track.total,
   completed |-> track.completed,
   width |-> progressPercent(track.progress),
   percent |-> track.progress]

ProcessesText(n) ==
  "Downloading... (" \o ToString(n) \o " process"
    \o (IF n > 1 THEN "es" ELSE "") \o ")"

\* the errors of a response, as the .progress-error elements show them
renderErrors(response) ==
  IF "errors" \in DOMAIN response THEN response.errors ELSE <<>>

updateProgressDisplay(d, response) ==
  IF "tracks" \notin DOMAIN response \/ Len(response.tracks) = 0
    THEN [d EXCEPT !.progressTracks =
            [kind |-> "loading", n |-> response.processCount,
             tracks |-> <<>>, errors |-> <<>>]]
    ELSE showStatus(
           [d EXCEPT !.progressTracks =
              [kind |-> "tracks", n |-> response.processCount,
               tracks |-> [i \in DOMAIN response.tracks |->
                             renderTrack(response.tracks[i])],
               errors |-> renderErrors(response)]],
           ProcessesText(response.processCount), "info")

\* startStatusPolling: what it shows before it sets the interval
startStatusPollingDom(d) ==
  [d EXCEPT !.progressSectionHidden = FALSE,
            !.progressTracks = [kind |-> "starting", n |-> 0,
                                tracks |-> <<>>, errors |-> <<>>]]

(* ------------------------ popup: DOMContentLoaded --------------------- *)
\* the handler up to its first await of sendMessage (or its return)
OpenPopup ==
  /\ phase = "start"
  /\ IF ~tab.match
       THEN /\ dom' = [dom EXCEPT !.notAppleMusicHidden = FALSE]
            /\ phase' = "nomatch"
            /\ UNCHANGED <<currentUrl, currentType, reqs>>
       ELSE /\ currentUrl' = tab.url
            /\ currentType' = DetectType(tab)
            /\ IF currentType' \in SELECTABLE_TYPES
                 THEN /\ dom' = [dom EXCEPT !.loadingHidden = FALSE]
                      /\ reqs' = Put(reqs, NewReq("init",
                           [action |-> "fetch_items", url |-> tab.url], NoSnapshot))
                      /\ phase' = "fetching"
                 ELSE /\ dom' = [dom EXCEPT !.appleMusicDetectedHidden = FALSE]
                      \* checkForActiveDownloads()
                      /\ reqs' = Put(reqs, NewReq("open",
                           [action |-> "check_status"], NoSnapshot))
                      /\ phase' = "ready"
  /\ UNCHANGED <<tab, items, selectedIds, alacChecked, statusCheckInterval,
                 timers, nTimers, nClicks, hostDone>>

fetchedDomQuiet(d, response) ==
  LET shown == [d EXCEPT !.loadingHidden = TRUE,
                         !.appleMusicDetectedHidden = FALSE]
  IN IF "items" \in DOMAIN response /\ Len(response.items) > 0
       THEN [renderItems(shown, response.items)
               EXCEPT !.itemsSectionHidden = FALSE]
     ELSE shown
\* what the handler shows for the fetch_items response
fetchedDom(d, response) ==
  LET shown == [d EXCEPT !.loadingHidden = TRUE,
                         !.appleMusicDetectedHidden = FALSE]
  IN IF response.success /\ "items" \in DOMAIN response /\ Len(response.items) > 0
       THEN [renderItems(shown, response.items)
               EXCEPT !.itemsSectionHidden = FALSE]
     ELSE IF response.success THEN shown
     ELSE showStatus(shown,
            IF TruthyStr(response.error) THEN response.error
            ELSE "Could not fetch items", "error")

\* the handler resumes after fetch_items, then calls checkForActiveDownloads
InitFetchResume(r, thrown) ==
  /\ phase = "fetching"
  /\ Resumes(r, "init", thrown)
  /\ LET response == r.promise
     IN IF thrown
          THEN /\ dom' = showStatus(
                    [dom EXCEPT !.loadingHidden = TRUE,
                                !.appleMusicDetectedHidden = FALSE],
                    "Error: " \o SendFailure, "error")
               /\ UNCHANGED items
          ELSE /\ dom' = fetchedDom(dom, response)
               /\ items' = IF response.success /\ "items" \in DOMAIN response
                                /\ Len(response.items) > 0
                             THEN response.items ELSE items
  /\ reqs' = Put(Take(reqs, r),
                 NewReq("open", [action |-> "check_status"], NoSnapshot))
  /\ phase' = "ready"
  /\ UNCHANGED <<tab, currentUrl, currentType, selectedIds, alacChecked,
                 statusCheckInterval, timers, nTimers, nClicks, hostDone>>

(* --------------------- popup: selection and codec --------------------- *)
\* a click on a listed item that is not marked downloaded
ItemClick(id) ==
  /\ phase = "ready"
  /\ ~dom.appleMusicDetectedHidden /\ ~dom.itemsSectionHidden
  /\ \E i \in DOMAIN items : items[i].id = id /\ ~(items[i].downloaded = TRUE)
  /\ selectedIds' = toggleItem(selectedIds, id)
  /\ dom' = updateSelectionCount(dom, items)
  /\ UNCHANGED <<phase, tab, currentUrl, currentType, items, alacChecked,
                 statusCheckInterval, timers, nTimers, nClicks, reqs, hostDone>>

SelectAllClick ==
  /\ phase = "ready"
  /\ ~dom.appleMusicDetectedHidden /\ ~dom.itemsSectionHidden
  /\ ~dom.selectAllBtnDisabled
  /\ selectedIds' = selectAllClicked(selectedIds, items)
  /\ dom' = renderItems(dom, items)
  /\ UNCHANGED <<phase, tab, currentUrl, currentType, items, alacChecked,
                 statusCheckInterval, timers, nTimers, nClicks, reqs, hostDone>>

\* the Lossless checkbox
AlacToggle ==
  /\ phase = "ready"
  /\ ~dom.appleMusicDetectedHidden
  /\ alacChecked' = ~alacChecked
  /\ UNCHANGED <<phase, tab, currentUrl, currentType, items, selectedIds, dom,
                 statusCheckInterval, timers, nTimers, nClicks, reqs, hostDone>>

(* ------------------------- popup: download button --------------------- *)
\* the message the click handler sends
downloadRequest(url, its, S, alac) ==
  [action |-> "download", url |-> url,
   codec |-> IF alac THEN "alac" ELSE "aac-legacy"]
    @@ (IF Len(its) > 0 /\ Len(S) > 0 /\ Len(S) < Len(its)
          THEN [selectedIds |-> S] ELSE <<>>)

DownloadClick ==
  /\ phase = "ready"
  /\ ~dom.appleMusicDetectedHidden
  /\ ~dom.downloadBtnDisabled
  /\ currentUrl # Null
  /\ nClicks < MaxDownloads
  /\ Inflight < MaxInflight
  /\ dom' = [loadingButton(dom) EXCEPT !.status.hidden = TRUE]
  /\ reqs' = Put(reqs, NewReq("click",
       downloadRequest(currentUrl, items, selectedIds, alacChecked),
       [alac |-> alacChecked, sel |-> selectedIds, n |-> Len(items)]))
  /\ nClicks' = nClicks + 1
  /\ UNCHANGED <<phase, tab, currentUrl, currentType, items, selectedIds,
                 alacChecked, statusCheckInterval, timers, nTimers, hostDone>>

\* the page after a download response without success, or after a throw
downloadFailedKeepLoading(d, message) == showStatus(d, message, "error")
downloadFailed(d, message) == restoreButton(showStatus(d, message, "error"))

\* whether the click handler starts polling for this outcome
startsPolling(thrown, response) == ~thrown /\ response.success

\* the click handler resumes after the download request
ClickResume(r, thrown) ==
  /\ Resumes(r, "click", thrown)
  /\ LET response == r.promise
         failure == IF thrown THEN "Error: " \o SendFailure
                    ELSE IF TruthyStr(response.error) THEN response.error
                    ELSE "Download failed"
         shown == IF ~thrown /\ response.success
                    THEN showStatus(dom, "Downloading...", "info")
                    ELSE downloadFailed(dom, failure)
     IN IF startsPolling(thrown, response)
          THEN /\ dom' = startStatusPollingDom(shown)
               /\ statusCheckInterval' = nTimers + 1
               /\ timers' = timers \cup {nTimers + 1}
               /\ nTimers' = nTimers + 1
          ELSE /\ dom' = shown
               /\ UNCHANGED <<statusCheckInterval, timers, nTimers>>
  /\ reqs' = Take(reqs, r)
  /\ UNCHANGED <<phase, tab, currentUrl, currentType, items, selectedIds,
                 alacChecked, nClicks, hostDone>>

(* -------------------------- popup: status polling --------------------- *)
\* the interval callback of a timer that is set: it sends check_status
Tick(t) ==
  /\ t \in timers
  /\ Inflight < MaxInflight
  /\ reqs' = Put(reqs, NewReq("tick", [action |-> "check_status"], NoSnapshot))
  /\ UNCHANGED <<popupVars, hostDone>>

DownloadComplete == "Download complete! Check your output folder."

\* the page after a status response that says the download finished
statusFinished(d) ==
  restoreButton(showStatus([d EXCEPT !.progressSectionHidden = TRUE],
                           DownloadComplete, "success"))

\* clearInterval(handle)
clearInterval(ts, handle) == ts \ {handle}

\* the page after the interval callback has handled its response or throw
statusPolledReport(d, thrown, response) ==
  IF thrown \/ ~response.success
    THEN restoreButton(showStatus(d, "Error checking status", "error"))
  ELSE IF response.isDownloading THEN updateProgressDisplay(d, response)
  ELSE statusFinished(d)
statusPolled(d, thrown, response) ==
  IF thrown \/ ~response.success THEN d
  ELSE IF response.isDownloading THEN updateProgressDisplay(d, response)
  ELSE statusFinished(d)

\* the interval callback resumes after its check_status request
TickResume(r, thrown) ==
  /\ Resumes(r, "tick", thrown)
  /\ LET response == r.promise
         finished == ~thrown /\ response.success /\ ~response.isDownloading
     IN /\ dom' = statusPolled(dom, thrown, response)
        /\ timers' = IF finished THEN clearInterval(timers, statusCheckInterval)
                     ELSE timers
        \* refreshItems() up to its await
        /\ reqs' = IF finished /\ currentType \in SELECTABLE_TYPES
                     THEN Put(Take(reqs, r), NewReq("refresh",
                            [action |-> "fetch_items", url |-> currentUrl],
                            NoSnapshot))
                     ELSE Take(reqs, r)
  /\ UNCHANGED <<phase, tab, currentUrl, currentType, items, selectedIds,
                 alacChecked, statusCheckInterval, nTimers, nClicks, hostDone>>

\* refreshItems resumes after fetch_items
RefreshResume(r, thrown) ==
  /\ Resumes(r, "refresh", thrown)
  /\ LET response == r.promise
         replace == ~thrown /\ response.success /\ "items" \in DOMAIN response
                      /\ Len(response.items) > 0
     IN /\ items' = IF replace THEN response.items ELSE items
        /\ selectedIds' = IF replace THEN <<>> ELSE selectedIds
        /\ dom' = IF replace THEN renderItems(dom, response.items) ELSE dom
  /\ reqs' = Take(reqs, r)
  /\ UNCHANGED <<phase, tab, currentUrl, currentType, alacChecked,
                 statusCheckInterval, timers, nTimers, nClicks, hostDone>>

\* checkForActiveDownloads resumes after its check_status request
OpenResume(r, thrown) ==
  /\ Resumes(r, "open", thrown)
  /\ LET response == r.promise
         active == ~thrown /\ response.success /\ response.isDownloading
     IN IF active
          THEN /\ dom' = startStatusPollingDom(
                   showStatus(
                     updateProgressDisplay(
                       [loadingButton(dom) EXCEPT !.progressSectionHidden = FALSE],
                       response),
                     ProcessesText(response.processCount), "info"))
               /\ statusCheckInterval' = nTimers + 1
               /\ timers' = timers \cup {nTimers + 1}
               /\ nTimers' = nTimers + 1
          ELSE UNCHANGED <<dom, statusCheckInterval, timers, nTimers>>
  /\ reqs' = Take(reqs, r)
  /\ UNCHANGED <<phase, tab, currentUrl, currentType, items, selectedIds,
                 alacChecked, nClicks, hostDone>>

(* ------------------------------ the system ---------------------------- *)
\* requests another page of the extension may send to the background
ExternalRequests ==
  {[action |-> "download", url |-> AlbumTab.url] @@ c @@ i :
       c \in {<<>>, [codec |-> "alac"], [codec |-> "aac-legacy"],
              [codec |-> Undefined], [codec |-> Null]},
       i \in {<<>>, [selectedIds |-> <<>>], [selectedIds |-> <<1>>],
              [selectedIds |-> <<2, 1>>]}}
    \cup {[action |-> "fetch_items", url |-> AlbumTab.url],
          [action |-> "check_status"]}

\* what the host may answer to each posted message
HostAnswers ==
  [download |-> HostDownloadResponses, fetch_items |-> FetchResponses,
   check_status |-> StatusResponses]
\* the answers left once the host has no job
Answers(all, done) ==
  IF done
    THEN [all EXCEPT !.check_status = @ \cap IdleStatusResponses]
    ELSE all
BgOutcomes == {"posted", "connectThrows", "postThrows"}

InitPopupState ==
  /\ currentUrl = Null
  /\ currentType = Null
  /\ items = <<>>
  /\ selectedIds = <<>>
  /\ alacChecked = FALSE
  /\ dom = InitDom
  /\ statusCheckInterval = 0
  /\ timers = {}
  /\ nTimers = 0
  /\ nClicks = 0
  /\ hostDone = FALSE

\* the popup has just been opened on a tab
InitPopup(tabs) ==
  /\ phase = "start"
  /\ tab \in tabs
  /\ reqs = EmptyBag
  /\ InitPopupState

\* the popup stays closed and another page sends one request
InitExternal ==
  /\ phase = "closed"
  /\ tab = NoTab
  /\ \E m \in ExternalRequests :
       reqs = SetToBag({NewReq("other", m, NoSnapshot)})
  /\ InitPopupState

Init == InitPopup(Tabs) \/ InitExternal

Background(outcomes, answers, errors) ==
  \/ \E r \in Requests : BgOnMessage(r, outcomes)
  \/ \E r \in Requests : PortOnMessage(r, Answers(answers, hostDone))
  \/ \E r \in Requests : PortOnDisconnect(r, errors)

Polling(throws) ==
  \/ DownloadClick
  \/ \E r \in Requests, thrown \in throws : ClickResume(r, thrown)
  \/ \E t \in timers : Tick(t)
  \/ \E r \in Requests, thrown \in throws : TickResume(r, thrown)
  \/ \E r \in Requests, thrown \in throws : OpenResume(r, thrown)

Selection(throws) ==
  \/ \E r \in Requests, thrown \in throws : InitFetchResume(r, thrown)
  \/ \E id \in 1..MaxItems : ItemClick(id)
  \/ SelectAllClick
  \/ \E r \in Requests, thrown \in throws : RefreshResume(r, thrown)

\* the whole extension
Next ==
  \/ OpenPopup
  \/ Selection(BOOLEAN)
  \/ AlacToggle
  \/ Polling(BOOLEAN)
  \/ Background(BgOutcomes, HostAnswers, LastErrors)
  \/ HostFinish

Spec == Init /\ [][Next]_vars

\* the background alone, serving one request of any shape
NextBg == Background(BgOutcomes, HostAnswers, LastErrors)
SpecBg == InitExternal /\ [][NextBg]_vars

\* the popup on a page without an item list; the host answers every message
NextPoll ==
  \/ OpenPopup
  \/ Polling(BOOLEAN)
  \/ \E r \in Requests : BgOnMessage(r, {"posted"})
  \/ \E r \in Requests : PortOnMessage(r, Answers(HostAnswers, hostDone))
SpecPoll == InitPopup({LibraryTab}) /\ [][NextPoll]_vars

\* the same popup with a host that runs out of jobs; every message reaches
\* the background, and timers, the event loops and the host keep going
QuietAnswers ==
  [download |-> {r \in HostDownloadResponses : r.success},
   fetch_items |-> {},
   check_status |-> {r \in StatusResponses :
                      r.success /\ r.tracks = <<>> /\ r.errors = <<>>}]
NextIdle ==
  \/ OpenPopup
  \/ Polling({FALSE})
  \/ \E r \in Requests : BgOnMessage(r, {"posted"})
  \/ \E r \in Requests : PortOnMessage(r, Answers(QuietAnswers, hostDone))
  \/ HostFinish
FairIdle ==
  /\ WF_vars(OpenPopup)
  /\ WF_vars(\E t \in timers : Tick(t))
  /\ WF_vars(\E r \in Requests : ClickResume(r, FALSE))
  /\ WF_vars(\E r \in Requests : TickResume(r, FALSE))
  /\ WF_vars(\E r \in Requests : OpenResume(r, FALSE))
  /\ WF_vars(\E r \in Requests : BgOnMessage(r, {"posted"}))
  /\ WF_vars(\E r \in Requests : PortOnMessage(r, Answers(QuietAnswers, hostDone)))
SpecIdle == InitPopup({LibraryTab}) /\ [][NextIdle]_vars /\ FairIdle

\* the popup on an album page with a cooperative host: downloads start and
\* are over at the first status query; or another page sends one request
SelAnswers ==
  [download |-> {r \in HostDownloadResponses : r.success},
   fetch_items |-> FetchResponses,
   check_status |-> {r \in IdleStatusResponses : r.errors = <<>>}]
NextSel ==
  \/ OpenPopup
  \/ Selection({FALSE})
  \/ Polling({FALSE})
  \/ \E r \in Requests : BgOnMessage(r, {"posted"})
  \/ \E r \in Requests : PortOnMessage(r, SelAnswers)
SpecSel == (InitPopup({AlbumTab}) \/ InitExternal) /\ [][NextSel]_vars

\* the popup on a page without an item list, with the Lossless checkbox and
\* the same cooperative host; or another page sends one request
NextCodec ==
  \/ OpenPopup
  \/ AlacToggle
  \/ Polling({FALSE})
  \/ \E r \in Requests : BgOnMessage(r, {"posted"})
  \/ \E r \in Requests : PortOnMessage(r, SelAnswers)
SpecCodec == (InitPopup({LibraryTab}) \/ InitExternal) /\ [][NextCodec]_vars

\* the popup opened on any tab, up to its first download request, with the
\* background and the host failing in every way they can
NextOpen ==
  \/ OpenPopup
  \/ \E r \in Requests, thrown \in BOOLEAN : InitFetchResume(r, thrown)
  \/ \E r \in Requests, thrown \in BOOLEAN : OpenResume(r, thrown)
  \/ DownloadClick
  \/ \E r \in Requests, thrown \in BOOLEAN : ClickResume(r, thrown)
  \/ Background(BgOutcomes, HostAnswers, LastErrors)
SpecOpen == InitPopup(Tabs) /\ [][NextOpen]_vars

\* the background without a working host: the native port only disconnects
NextLost ==
  \/ \E r \in Requests : BgOnMessage(r, BgOutcomes)
  \/ \E r \in Requests : PortOnDisconnect(r, LastErrors)
SpecLost == InitExternal /\ [][NextLost]_vars

\* the popup on an album page with a host that answers every message in any
\* way it can
NextAlbum ==
  \/ NextPoll
  \/ Selection({FALSE})
SpecAlbum == InitPopup({AlbumTab}) /\ [][NextAlbum]_vars

\* a host in the middle of a download: the TrackProgress records its output
\* parser derives, percent within 0..100 and completed within 0..total
HostPercents == {"0%", "50%", "99.5%", "100%"}
TrackProgresses ==
  {[name |-> "Song A", current |-> c, total |-> 2, completed |-> k,
    progress |-> p] : c \in 1..2, k \in 0..2, p \in HostPercents}
ProgressAnswers ==
  [download |-> {},
   fetch_items |-> {},
   check_status |->
     {[success |-> TRUE, isDownloading |-> TRUE, tracks |-> <<t>>,
       errors |-> <<>>, processCount |-> 1] : t \in TrackProgresses}
       \cup {r \in IdleStatusResponses : r.errors = <<>>}]
\* the popup opened during that download, polling until it is over
NextProgress ==
  \/ OpenPopup
  \/ \E r \in Requests : OpenResume(r, FALSE)
  \/ \E t \in timers : Tick(t)
  \/ \E r \in Requests : TickResume(r, FALSE)
  \/ \E r \in Requests : BgOnMessage(r, {"posted"})
  \/ \E r \in Requests : PortOnMessage(r, ProgressAnswers)
SpecProgress == InitPopup({LibraryTab}) /\ [][NextProgress]_vars

(* ------------------------------- claims ------------------------------- *)
DownloadRequests == {r \in Requests : r.msg.action = "download"}

ShapeSuccess(v) == DOMAIN v = {"success", "message"} /\ v.success = TRUE
ShapeFailure(v) ==
  DOMAIN v = {"success", "error"} /\ v.success = FALSE /\ TruthyStr(v.error)

\* C1: every value handleDownload resolves with is {success:true, message} or
\* {success:false, error} with a non-empty error string, and once the promise
\* is settled no later port event or exception changes its value.
C1_ResultShape ==
  /\ [](\A r \in DownloadRequests :
          r.promise # Pending => ShapeSuccess(r.promise) \/ ShapeFailure(r.promise))
  /\ [][\A r \in DownloadRequests :
          r.promise # Pending =>
            \A q \in BagToSet(reqs') : q.promise = r.promise /\ q.nresp = 1]_vars

\* C1 witness: the host answered a download without success and without an
\* error text, and the handler resolved with 'Unknown error'
C1_Witness ==
  \E r \in DownloadRequests :
    /\ r.port = "closed"
    /\ r.promise = [success |-> FALSE, error |-> "Unknown error"]

\* C2: once the native port of a download, fetch_items or check_status request
\* has delivered a message or disconnected, sendResponse has been called
\* exactly once for that request.
C2_OneResponse ==
  \A r \in Requests :
    r.msg.action \in KnownActions /\ r.port = "closed" => r.nresp = 1


\* the step consumes request r: its awaiting handler resumes
Consumed(r) ==
  \/ reqs' = Take(reqs, r)
  \/ \E q \in BagToSet(reqs') :
       q.stage = "sent" /\ q.who # r.who /\ reqs' = Put(Take(reqs, r), q)
\* r resumes with a response (not by throwing)
Answered(r) == r.nresp > 0

\* C3: when the click handler resumes with a response without success, or
\* with a throw, the page shows an error status, the download button is
\* enabled and out of its loading state, and no timer is started.
C3_FailedLaunch ==
  [][\A r \in Requests :
       (/\ r.who = "click"
        /\ Consumed(r)
        /\ (Answered(r) => ~r.promise.success))
       => /\ ~dom'.status.hidden
          /\ dom'.status.type = "error"
          /\ dom'.status.text # ""
          /\ ~dom'.downloadBtnDisabled
          /\ ~dom'.btnLoading
          /\ timers' = timers
          /\ statusCheckInterval' = statusCheckInterval]_vars

\* C3 witness: the host refused a download and the page shows its error with
\* the button enabled again
C3_Witness ==
  /\ nClicks > 0
  /\ dom.status = [hidden |-> FALSE, type |-> "error",
                   text |-> "gamdl not found in PATH"]
  /\ ~dom.downloadBtnDisabled /\ ~dom.btnLoading

\* C4: a status response that ends polling (success, not downloading) while
\* carrying errors is not presented with the success status.
C4_NoFalseSuccess ==
  [][\A r \in Requests :
       (/\ r.who = "tick"
        /\ Consumed(r)
        /\ Answered(r)
        /\ r.promise.success
        /\ ~r.promise.isDownloading
        /\ r.promise.errors # <<>>)
       => ~(~dom'.status.hidden /\ dom'.status.text = DownloadComplete)]_vars

\* C5: the progress display rendered for a successful status response with
\* isDownloading true contains every error the response carries.
C5_ErrorsShown ==
  [][\A r \in Requests :
       (/\ r.who \in {"tick", "open"}
        /\ Consumed(r)
        /\ Answered(r)
        /\ r.promise.success
        /\ r.promise.isDownloading
        /\ r.promise.errors # <<>>)
       => Range(r.promise.errors) \subseteq Range(dom'.progressTracks.errors)]_vars

\* C6: a timer is started only by a download response with success or by the
\* popup-open status check answered success and downloading, and after the
\* interval callback has handled a successful not-downloading response no
\* timer is left to send check_status.
C6_PollsOnlyWhileActive ==
  [][/\ (timers' \ timers # {}) =>
          \E r \in Requests :
            /\ Consumed(r) /\ Answered(r) /\ r.promise.success
            /\ r.who = "click" \/ (r.who = "open" /\ r.promise.isDownloading)
     /\ \A r \in Requests :
          (/\ r.who = "tick"
           /\ Consumed(r)
           /\ Answered(r)
           /\ r.promise.success
           /\ ~r.promise.isDownloading)
          => timers' = {}]_vars

PopupIdle == timers = {} /\ dom.progressSectionHidden /\ ~dom.btnLoading

\* C7: once the host answers every status query with success and not
\* downloading, the popup reaches its idle state (no timer set, progress
\* section hidden, button not loading) and stays in it.
C7_PollingTerminates == [](hostDone => <>[]PopupIdle)

\* download requests whose message the background has posted to the host
PostedDownloads == {r \in DownloadRequests : r.posted # NoMsg}
\* ids of the listed items whose downloaded flag is not set
SelectableIds(its) == {its[i].id : i \in {j \in DOMAIN its : ~its[j].downloaded}}

\* C8: the message posted to the native host for a popup download carries
\* selectedIds if and only if the selection S at the click has
\* 0 < |S| < |items|, and then it is exactly S; and no posted download
\* message, whoever sent the request, carries an empty selectedIds list.
C8_SubsetSelection ==
  \A r \in PostedDownloads :
    /\ "selectedIds" \in DOMAIN r.posted => Len(r.posted.selectedIds) > 0
    /\ r.who = "click" =>
         IF 0 < Len(r.at.sel) /\ Len(r.at.sel) < r.at.n
           THEN /\ "selectedIds" \in DOMAIN r.posted
                /\ r.posted.selectedIds = r.at.sel
           ELSE "selectedIds" \notin DOMAIN r.posted

\* C8 witness: one of two listed items was selected and the host is sent
\* exactly that selection
C8_Witness ==
  \E r \in PostedDownloads :
    /\ r.who = "click"
    /\ r.at.n = 2
    /\ r.at.sel = <<2>>
    /\ "selectedIds" \in DOMAIN r.posted
    /\ r.posted.selectedIds = <<2>>

\* C9: selectedIds holds only ids of items currently listed whose downloaded
\* flag is not set, and a selectedIds list the popup sends names no item
\* that the list marks downloaded at the click.
C9_OnlySelectable ==
  /\ [](Range(selectedIds) \subseteq SelectableIds(items))
  /\ [][\A q \in BagToSet(reqs') :
          (/\ q.who = "click"
           /\ q.stage = "sent"
           /\ CopiesIn(q, reqs') > CopiesIn(q, reqs)
           /\ "selectedIds" \in DOMAIN q.msg)
          => Range(q.msg.selectedIds) \subseteq SelectableIds(items)]_vars

\* C9 witness: after a download and with nothing outstanding, the list shows
\* a downloaded item next to a selected one
C9_Witness ==
  /\ nClicks > 0
  /\ reqs = EmptyBag
  /\ timers = {}
  /\ selectedIds # <<>>
  /\ \E i \in DOMAIN items : items[i].downloaded

\* C10: the posted download message has the codec of the request, or
\* 'aac-legacy' when the request carries none; for a popup download that is
\* 'alac' if and only if the Lossless toggle was checked at the click, and
\* 'aac-legacy' otherwise.
C10_CodecEndToEnd ==
  \A r \in PostedDownloads :
    /\ r.posted.codec =
         IF "codec" \in DOMAIN r.msg /\ r.msg.codec # Undefined
           THEN r.msg.codec ELSE "aac-legacy"
    /\ r.who = "click" =>
         r.posted.codec = IF r.at.alac THEN "alac" ELSE "aac-legacy"

\* C10 witness: a popup download clicked with Lossless checked is posted
\* with codec 'alac'
C10_Witness ==
  \E r \in PostedDownloads :
    r.who = "click" /\ r.at.alac /\ r.posted.codec = "alac"

\* the download button can be pressed: its view is shown and it is enabled
ButtonUsable(d) == ~d.appleMusicDetectedHidden /\ ~d.downloadBtnDisabled

\* C11: when the DOMContentLoaded handler resumes with a fetch_items response
\* without success, the page shows an error status and no item list; when it
\* resumes with success and an empty items list, the page shows the plain
\* download view without a status; in both cases the button can be pressed.
C11_FetchFailureDistinct ==
  [][\A r \in Requests :
       (r.who = "init" /\ Consumed(r) /\ Answered(r))
       => IF ~r.promise.success
            THEN /\ ~dom'.status.hidden
                 /\ dom'.status.type = "error"
                 /\ dom'.status.text # ""
                 /\ dom'.itemsSectionHidden
                 /\ items' = <<>>
                 /\ ButtonUsable(dom')
          ELSE IF r.promise.items = <<>>
            THEN /\ dom'.status.hidden
                 /\ dom'.itemsSectionHidden
                 /\ items' = <<>>
                 /\ ButtonUsable(dom')
          ELSE TRUE]_vars

\* C11 witness: the native host is missing, the listing failed through the
\* port error and the page shows that error next to a usable button
C11_Witness ==
  /\ phase = "ready"
  /\ currentType \in SELECTABLE_TYPES
  /\ dom.status = [hidden |-> FALSE, type |-> "error", text |-> NotInstalled]
  /\ dom.itemsSectionHidden
  /\ ButtonUsable(dom)

C13_SingleTimer == Cardinality(timers) <= 1

\* C14: while a download request of the popup is sent and not yet answered,
\* or a status polling timer is set, the download button is disabled.
C14_ButtonDisabledWhileBusy ==
  (\/ \E r \in DownloadRequests : r.who = "click" /\ ~Answered(r)
   \/ timers # {})
  => dom.downloadBtnDisabled

\* C15: whenever the rendered item list is non-empty and every item in it is
\* marked downloaded, the download button is disabled.
C15_AllDownloadedDisabled ==
  (/\ ~dom.itemsSectionHidden
   /\ items # <<>>
   /\ \A i \in DOMAIN items : items[i].downloaded)
  => dom.downloadBtnDisabled

\* C16: when the interval callback resumes with a response without success,
\* or with a throw, the timers, the timer handle and the whole page (button,
\* progress display, status) stay as they were.
C16_PollErrorsIgnored ==
  [][\A r \in Requests :
       (/\ r.who = "tick"
        /\ Consumed(r)
        /\ (Answered(r) => ~r.promise.success))
       => /\ timers' = timers
          /\ statusCheckInterval' = statusCheckInterval
          /\ dom' = dom]_vars

\* C16 witness: a poll has been answered without success while the timer is
\* set and the page shows a track's progress
C16_Witness ==
  /\ timers # {}
  /\ dom.progressTracks.kind = "tracks"
  /\ dom.btnLoading
  /\ \E r \in Requests :
       r.who = "tick" /\ Answered(r) /\ ~r.promise.success

\* what a request resolves to when its port disconnects with lastError m
DisconnectReport(m) ==
  [success |-> FALSE,
   error |-> IF Includes(m, "not found") THEN NotInstalled ELSE m]

\* C17: when the native port disconnects with an error, a download,
\* fetch_items or check_status request resolves to the install hint if the
\* message contains 'not found' and to the original message otherwise.
C17_MissingHostReported ==
  \A r \in Requests :
    (/\ r.msg.action \in KnownActions
     /\ r.port = "closed"
     /\ r.posted # NoMsg
     /\ r.promise # Pending)
    => r.promise \in {DisconnectReport(m) : m \in LastErrorMessages}

\* C18: a Select All press empties selectedIds when it holds every
\* non-downloaded item and otherwise makes it exactly the non-downloaded
\* items; two presses in a row from the empty selection give the empty
\* selection, and two clicks in a row on one item give the selection there
\* was before them.
C18_SelectAllToggles ==
  /\ [][SelectAllClick =>
          IF Range(selectedIds) = SelectableIds(items)
            THEN selectedIds' = <<>>
            ELSE Range(selectedIds') = SelectableIds(items)]_vars
  /\ [](selectedIds = <<>> =>
          selectAllClicked(selectAllClicked(selectedIds, items), items) = <<>>)
  /\ [](\A id \in SelectableIds(items) :
          Range(toggleItem(toggleItem(selectedIds, id), id)) = Range(selectedIds))

\* C18 witness: next to a downloaded item, every non-downloaded item of the
\* list is selected
C18_Witness ==
  /\ ~dom.itemsSectionHidden
  /\ ~dom.selectAllBtnDisabled
  /\ selectedIds # <<>>
  /\ Range(selectedIds) = SelectableIds(items)
  /\ \E i \in DOMAIN items : items[i].downloaded

\* the tab's URL matches as an artist or album page without a ?i= sub id
ListsItems(t) ==
  t.match /\ t.sub_id = Undefined /\ t.type \in {"artist", "album"}

\* C19: opening the popup sends a fetch_items request if and only if the tab
\* is an artist or album page without a sub id; on a tab that does not match
\* the Apple Music pattern no request is ever sent and the download button
\* cannot be pressed.
C19_FetchOnlyWhenListable ==
  /\ [][phase = "start" /\ phase' # "start" =>
          ((\E q \in BagToSet(reqs') : q.msg.action = "fetch_items")
             <=> ListsItems(tab))]_vars
  /\ [](~tab.match => reqs = EmptyBag /\ ~ENABLED DownloadClick)

\* C19 witness: the popup was opened on an album URL with ?i=, took it for a
\* song and went on to the status check without a fetch_items request
C19_Witness ==
  /\ tab = SongTab
  /\ phase = "ready"
  /\ currentType = "song"
  /\ \E r \in Requests : r.who = "open"
  /\ \A r \in Requests : r.msg.action # "fetch_items"

====
